---- MODULE Spec2Model ----
(***************************************************************************)
(* Model of lambda/handler.py: the Lambda entry point lambda_handler and   *)
(* the Bedrock caller invoke_bedrock.                                      *)
(*                                                                         *)
(* Python values are tagged records, Python str values are TLA+ strings,   *)
(* a dict is the sequence of its <<key, value>> items in insertion order.  *)
(* An evaluation that can raise yields [ok |-> TRUE, val |-> v] or         *)
(* [ok |-> FALSE, exc |-> [type |-> .., msg |-> ..]], msg being str(e).    *)
(***************************************************************************)
EXTENDS Integers, Sequences, FiniteSets, TLC

(* ---------------------------- bounds ----------------------------------- *)

\* longest content list a mocked provider response carries
MaxContentLen == 2

(* ------------------------- Python values ------------------------------- *)

None == [t |-> "null"]
PyStr(s) == [t |-> "str", s |-> s]
PyInt(n) == [t |-> "int", n |-> n]
PyBool(b) == [t |-> "bool", b |-> b]
\* a float, kept as the decimal text repr() gives
PyFloat(r) == [t |-> "float", r |-> r]
PyList(l) == [t |-> "list", l |-> l]
PyDict(d) == [t |-> "dict", d |-> d]

Ok(v) == [ok |-> TRUE, val |-> v]
Raise(type, msg) == [ok |-> FALSE, exc |-> [type |-> type, msg |-> msg]]

\* the statement after one that may raise: Then(v) runs on the value of r,
\* and an exception of r propagates
Bind(r, Then(_)) == IF r.ok THEN Then(r.val) ELSE r

\* type(v).__name__
TypeName(v) ==
  CASE v.t = "null" -> "NoneType"
    [] v.t = "str" -> "str"
    [] v.t = "int" -> "int"
    [] v.t = "bool" -> "bool"
    [] v.t = "float" -> "float"
    [] v.t = "list" -> "list"
    [] v.t = "dict" -> "dict"

\* bool(v), as `not query` evaluates it
Truthy(v) ==
  CASE v.t = "null" -> FALSE
    [] v.t = "str" -> v.s # ""
    [] v.t = "int" -> v.n # 0
    [] v.t = "bool" -> v.b
    [] v.t = "float" -> v.r \notin {"0.0", "-0.0"}
    [] v.t = "list" -> Len(v.l) > 0
    [] v.t = "dict" -> Len(v.d) > 0

\* the i-th character of s, "" past the end
Ch(s, i) == IF i >= 1 /\ i <= Len(s) THEN SubSeq(s, i, i) ELSE ""

\* sub in s, for two str
StrContains(s, sub) ==
  \E i \in 1..(Len(s) - Len(sub) + 1) : SubSeq(s, i, i + Len(sub) - 1) = sub

HasKey(d, k) == \E i \in 1..Len(d) : d[i][1] = k

Lookup(d, k) == d[CHOOSE i \in 1..Len(d) : d[i][1] = k][2]

\* d[k] = v on a dict: replaces in place, or appends
DictSet(d, k, v) ==
  IF HasKey(d, k)
  THEN [i \in 1..Len(d) |-> IF d[i][1] = k THEN <<k, v>> ELSE d[i]]
  ELSE Append(d, <<k, v>>)

\* key in container, for a str key
PyIn(k, c) ==
  CASE c.t = "dict" -> Ok(HasKey(c.d, k))
    [] c.t = "list" -> Ok(\E i \in 1..Len(c.l) : c.l[i] = PyStr(k))
    [] c.t = "str" -> Ok(StrContains(c.s, k))
    [] OTHER -> Raise("TypeError",
                      "argument of type '" \o TypeName(c) \o "' is not iterable")

\* container[key], key a str
PyGetKey(c, k) ==
  CASE c.t = "dict" ->
         IF HasKey(c.d, k) THEN Ok(Lookup(c.d, k))
         ELSE Raise("KeyError", "'" \o k \o "'")
    [] c.t = "list" ->
         Raise("TypeError", "list indices must be integers or slices, not str")
    [] c.t = "str" ->
         Raise("TypeError", "string indices must be integers, not 'str'")
    [] OTHER ->
         Raise("TypeError", "'" \o TypeName(c) \o "' object is not subscriptable")

\* container[0]
PyGetFirst(c) ==
  CASE c.t = "list" ->
         IF Len(c.l) > 0 THEN Ok(c.l[1])
         ELSE Raise("IndexError", "list index out of range")
    [] c.t = "str" ->
         IF Len(c.s) > 0 THEN Ok(PyStr(Ch(c.s, 1)))
         ELSE Raise("IndexError", "string index out of range")
    [] c.t = "dict" -> Raise("KeyError", "0")
    [] OTHER ->
         Raise("TypeError", "'" \o TypeName(c) \o "' object is not subscriptable")

\* len(v)
PyLen(v) ==
  CASE v.t = "list" -> Ok(Len(v.l))
    [] v.t = "dict" -> Ok(Len(v.d))
    [] v.t = "str" -> Ok(Len(v.s))
    [] OTHER -> Raise("TypeError",
                      "object of type '" \o TypeName(v) \o "' has no len()")

\* obj.get(key, default): only a dict has the method
PyGet(obj, k, default) ==
  IF obj.t = "dict"
  THEN Ok(IF HasKey(obj.d, k) THEN Lookup(obj.d, k) ELSE default)
  ELSE Raise("AttributeError",
             "'" \o TypeName(obj) \o "' object has no attribute 'get'")

(* ------------------------------ json ----------------------------------- *)

\* the least element of the set of positions at, 0 if it is empty
Least(at) == IF at = {} THEN 0 ELSE CHOOSE k \in at : \A j \in at : k <= j

\* the least position from p on at which s has a character of cs, 0 if none
NextOf(s, p, cs) == Least({k \in p..Len(s) : Ch(s, k) \in cs})

\* the characters json.dumps escapes in a str (texts here are ASCII), and
\* what follows the backslash for each
EscapeTable ==
  ("\"" :> "\"") @@ ("\\" :> "\\") @@ ("\n" :> "n") @@ ("\t" :> "t")
  @@ ("\r" :> "r")

RECURSIVE EscapeFrom(_, _)

\* s[i..] escaped, m being the position of its first escaped character
EscapeAt(s, i, m) ==
  IF m = 0 THEN SubSeq(s, i, Len(s))
  ELSE SubSeq(s, i, m - 1) \o "\\" \o EscapeTable[Ch(s, m)]
       \o EscapeFrom(s, m + 1)

\* the body of the JSON string literal for s[i..]
EscapeFrom(s, i) == EscapeAt(s, i, NextOf(s, i, DOMAIN EscapeTable))

RECURSIVE json_dumps(_)
RECURSIVE DumpElements(_, _)
RECURSIVE DumpMembers(_, _)

\* json.dumps(v) with the default separators ", " and ": "
json_dumps(v) ==
  CASE v.t = "null" -> "null"
    [] v.t = "str" -> "\"" \o EscapeFrom(v.s, 1) \o "\""
    [] v.t = "int" -> ToString(v.n)
    [] v.t = "bool" -> IF v.b THEN "true" ELSE "false"
    [] v.t = "float" -> v.r
    [] v.t = "list" -> "[" \o DumpElements(v.l, 1) \o "]"
    [] v.t = "dict" -> "{" \o DumpMembers(v.d, 1) \o "}"

DumpElements(l, i) ==
  IF i > Len(l) THEN ""
  ELSE json_dumps(l[i]) \o (IF i < Len(l) THEN ", " ELSE "")
       \o DumpElements(l, i + 1)

DumpMembers(d, i) ==
  IF i > Len(d) THEN ""
  ELSE "\"" \o EscapeFrom(d[i][1], 1) \o "\": " \o json_dumps(d[i][2])
       \o (IF i < Len(d) THEN ", " ELSE "") \o DumpMembers(d, i + 1)

\* scanner results: [ok |-> TRUE, val, next] with next the position after
\* the value, or [ok |-> FALSE, msg, pos] with pos the 0-based char index
Scanned(v, next) == [ok |-> TRUE, val |-> v, next |-> next]
ScanFail(msg, pos) == [ok |-> FALSE, msg |-> msg, pos |-> pos]

\* the scan goes on with Then(value, next) after r, and fails as r failed
ScanBind(r, Then(_, _)) == IF r.ok THEN Then(r.val, r.next) ELSE r

StartsWith(s, p, lit) ==
  p + Len(lit) - 1 <= Len(s) /\ SubSeq(s, p, p + Len(lit) - 1) = lit

Digits == {"0", "1", "2", "3", "4", "5", "6", "7", "8", "9"}

DigitVal(c) ==
  CASE c = "0" -> 0 [] c = "1" -> 1 [] c = "2" -> 2 [] c = "3" -> 3
    [] c = "4" -> 4 [] c = "5" -> 5 [] c = "6" -> 6 [] c = "7" -> 7
    [] c = "8" -> 8 [] c = "9" -> 9

RECURSIVE SkipWs(_, _)
SkipWs(s, p) ==
  IF Ch(s, p) \in {" ", "\t", "\n", "\r"} THEN SkipWs(s, p + 1) ELSE p

RECURSIVE ScanString(_, _, _, _)

\* the string literal opened at start, read up to p with text acc, m being
\* the position of the next quote, backslash or control character
ScanStringAt(s, start, p, acc, m) ==
  CASE m = 0 -> ScanFail("Unterminated string starting at", start - 1)
    [] Ch(s, m) = "\"" -> Scanned(acc \o SubSeq(s, p, m - 1), m + 1)
    [] Ch(s, m) # "\\" -> ScanFail("Invalid control character at", m - 1)
    [] Ch(s, m + 1) = "" ->
         ScanFail("Unterminated string starting at", start - 1)
    [] Ch(s, m + 1) \in {"\"", "\\", "/"} ->
         ScanString(s, start, m + 2, acc \o SubSeq(s, p, m - 1) \o Ch(s, m + 1))
    [] Ch(s, m + 1) = "n" ->
         ScanString(s, start, m + 2, acc \o SubSeq(s, p, m - 1) \o "\n")
    [] Ch(s, m + 1) = "t" ->
         ScanString(s, start, m + 2, acc \o SubSeq(s, p, m - 1) \o "\t")
    [] Ch(s, m + 1) = "r" ->
         ScanString(s, start, m + 2, acc \o SubSeq(s, p, m - 1) \o "\r")
    [] OTHER ->
         ScanFail("Invalid \\escape: '" \o Ch(s, m + 1) \o "'", m - 1)

\* the string literal opened by the quote at start; p is the read position
\* and acc the text read so far
ScanString(s, start, p, acc) ==
  ScanStringAt(s, start, p, acc,
               NextOf(s, p, {"\"", "\\", "\n", "\t", "\r"}))

RECURSIVE ScanDigits(_, _, _)
\* the run of digits at p, with acc the value read so far
ScanDigits(s, p, acc) ==
  IF Ch(s, p) \in Digits
  THEN ScanDigits(s, p + 1, 10 * acc + DigitVal(Ch(s, p)))
  ELSE Scanned(acc, p)

\* an integer literal -?(0|[1-9][0-9]*) whose first digit is at p
ScanInt(s, p, sign) ==
  ScanBind(IF Ch(s, p) = "0" THEN Scanned(0, p + 1) ELSE ScanDigits(s, p, 0),
           LAMBDA n, next : Scanned(PyInt(sign * n), next))

RECURSIVE ScanValue(_, _)
RECURSIVE ScanMembers(_, _, _)
RECURSIVE ScanElements(_, _, _)

\* an object after its brace, q being the first position past whitespace
ScanObject(s, q) ==
  IF Ch(s, q) = "}" THEN Scanned(PyDict(<<>>), q + 1)
  ELSE ScanMembers(s, q, <<>>)

\* an array after its bracket
ScanArray(s, q) ==
  IF Ch(s, q) = "]" THEN Scanned(PyList(<<>>), q + 1)
  ELSE ScanElements(s, q, <<>>)

\* the JSON value that starts at p (whitespace already skipped)
ScanValue(s, p) ==
  CASE Ch(s, p) = "\"" ->
         ScanBind(ScanString(s, p, p + 1, ""),
                  LAMBDA text, next : Scanned(PyStr(text), next))
    [] Ch(s, p) = "{" -> ScanObject(s, SkipWs(s, p + 1))
    [] Ch(s, p) = "[" -> ScanArray(s, SkipWs(s, p + 1))
    [] StartsWith(s, p, "null") -> Scanned(None, p + 4)
    [] StartsWith(s, p, "true") -> Scanned(PyBool(TRUE), p + 4)
    [] StartsWith(s, p, "false") -> Scanned(PyBool(FALSE), p + 5)
    [] Ch(s, p) \in Digits -> ScanInt(s, p, 1)
    [] Ch(s, p) = "-" /\ Ch(s, p + 1) \in Digits -> ScanInt(s, p + 1, -1)
    [] OTHER -> ScanFail("Expecting value", p - 1)

\* an object with members d read, u being the position after the last value
MembersAfterValue(s, u, d) ==
  CASE Ch(s, u) = "}" -> Scanned(PyDict(d), u + 1)
    [] Ch(s, u) = "," -> ScanMembers(s, SkipWs(s, u + 1), d)
    [] OTHER -> ScanFail("Expecting ',' delimiter", u - 1)

\* an object with members acc and the key k read, q the position after k
MembersAfterKey(s, q, acc, k) ==
  IF Ch(s, q) # ":" THEN ScanFail("Expecting ':' delimiter", q - 1)
  ELSE ScanBind(ScanValue(s, SkipWs(s, q + 1)),
                LAMBDA v, next :
                  MembersAfterValue(s, SkipWs(s, next), DictSet(acc, k, v)))

\* the members of an object from the key expected at p; acc holds the
\* members read so far
ScanMembers(s, p, acc) ==
  IF Ch(s, p) # "\""
  THEN ScanFail("Expecting property name enclosed in double quotes", p - 1)
  ELSE ScanBind(ScanString(s, p, p + 1, ""),
                LAMBDA k, next : MembersAfterKey(s, SkipWs(s, next), acc, k))

\* an array with elements l read, u being the position after the last one
ElementsAfterValue(s, u, l) ==
  CASE Ch(s, u) = "]" -> Scanned(PyList(l), u + 1)
    [] Ch(s, u) = "," -> ScanElements(s, SkipWs(s, u + 1), l)
    [] OTHER -> ScanFail("Expecting ',' delimiter", u - 1)

\* the elements of an array from the value expected at p
ScanElements(s, p, acc) ==
  ScanBind(ScanValue(s, p),
           LAMBDA v, next :
             ElementsAfterValue(s, SkipWs(s, next), Append(acc, v)))

\* str(JSONDecodeError(msg, doc, pos)) for a one-line document
DecodeErrorText(msg, pos) ==
  msg \o ": line 1 column " \o ToString(pos + 1)
      \o " (char " \o ToString(pos) \o ")"

\* the value v read from all of s, e being the position of what follows it
EndOfDocument(s, v, e) ==
  IF e <= Len(s)
  THEN Raise("JSONDecodeError", DecodeErrorText("Extra data", e - 1))
  ELSE Ok(v)

\* what json.loads gives for the scan r of s
Decoded(s, r) ==
  IF r.ok THEN EndOfDocument(s, r.val, SkipWs(s, r.next))
  ELSE Raise("JSONDecodeError", DecodeErrorText(r.msg, r.pos))

\* json.loads(s)
json_loads(s) == Decoded(s, ScanValue(s, SkipWs(s, 1)))

(* ----------------------- handler.py: invoke_bedrock -------------------- *)

\* str.lower() on the ASCII letters
LowerTable ==
  ("A" :> "a") @@ ("B" :> "b") @@ ("C" :> "c") @@ ("D" :> "d")
  @@ ("E" :> "e") @@ ("F" :> "f") @@ ("G" :> "g") @@ ("H" :> "h")
  @@ ("I" :> "i") @@ ("J" :> "j") @@ ("K" :> "k") @@ ("L" :> "l")
  @@ ("M" :> "m") @@ ("N" :> "n") @@ ("O" :> "o") @@ ("P" :> "p")
  @@ ("Q" :> "q") @@ ("R" :> "r") @@ ("S" :> "s") @@ ("T" :> "t")
  @@ ("U" :> "u") @@ ("V" :> "v") @@ ("W" :> "w") @@ ("X" :> "x")
  @@ ("Y" :> "y") @@ ("Z" :> "z")

LowerChar(c) == IF c \in DOMAIN LowerTable THEN LowerTable[c] ELSE c

RECURSIVE LowerRange(_, _, _)
\* s[lo..hi] with every character lowered
LowerRange(s, lo, hi) ==
  IF lo > hi THEN ""
  ELSE IF lo = hi THEN LowerChar(Ch(s, lo))
  ELSE LET mid == (lo + hi) \div 2
       IN LowerRange(s, lo, mid) \o LowerRange(s, mid + 1, hi)

\* s.lower()
Lower(s) == LowerRange(s, 1, Len(s))

\* the test without .lower()
IsAnthropicCaseSensitive(model) == StrContains(model, "anthropic")

\* 'anthropic' in MODEL_ID.lower()
IsAnthropic(model) == StrContains(Lower(model), "anthropic")

\* request_body of the Anthropic branch
AnthropicRequestBody(q) ==
  PyDict(<< <<"anthropic_version", PyStr("bedrock-2023-05-31")>>,
            <<"max_tokens", PyInt(1000)>>,
            <<"messages",
              PyList(<<PyDict(<< <<"role", PyStr("user")>>,
                                 <<"content", q>> >>)>>)>> >>)

\* bedrock_runtime.invoke_model(modelId=MODEL_ID, body=json.dumps(request_body))
InvokeModelCall(q, model) ==
  [op |-> "invoke_model", modelId |-> model,
   body |-> json_dumps(AnthropicRequestBody(q))]

\* bedrock_runtime.converse(modelId=MODEL_ID, messages=.., inferenceConfig=..)
ConverseCall(q, model) ==
  [op |-> "converse", modelId |-> model,
   messages |->
     PyList(<<PyDict(<< <<"role", PyStr("user")>>,
                        <<"content",
                          PyList(<<PyDict(<< <<"text", q>> >>)>>)>> >>)>>),
   inferenceConfig |->
     PyDict(<< <<"maxTokens", PyInt(1000)>>,
               <<"temperature", PyFloat("0.7")>> >>)]

\* the Anthropic branch falling through into the Converse call
invoke_bedrock_calls_fallthrough(q, model) ==
  IF IsAnthropic(model)
  THEN <<InvokeModelCall(q, model), ConverseCall(q, model)>>
  ELSE <<ConverseCall(q, model)>>

\* the calls invoke_bedrock(query) makes on bedrock_runtime, in order
invoke_bedrock_calls(q, model) ==
  IF IsAnthropic(model) THEN <<InvokeModelCall(q, model)>>
  ELSE <<ConverseCall(q, model)>>

\* json.loads(response['body'].read()); the stream under the key body is
\* the str it yields
ReadBody(resp) ==
  Bind(PyGetKey(resp, "body"), LAMBDA stream : json_loads(stream.s))

\* the Anthropic branch after invoke_model returned resp
ExtractAnthropic(resp) ==
  Bind(ReadBody(resp), LAMBDA response_body :
    Bind(PyIn("content", response_body), LAMBDA has :
      IF ~has THEN Ok(PyStr("No response generated"))
      ELSE
        Bind(PyGetKey(response_body, "content"), LAMBDA content :
          Bind(PyLen(content), LAMBDA n :
            IF ~(n > 0) THEN Ok(PyStr("No response generated"))
            ELSE Bind(PyGetFirst(content), LAMBDA first :
                   PyGetKey(first, "text"))))))

\* the Converse branch after converse returned resp
ExtractConverse(resp) ==
  Bind(PyIn("output", resp), LAMBDA hasOutput :
    IF ~hasOutput THEN Ok(PyStr("No response generated"))
    ELSE
      Bind(PyGetKey(resp, "output"), LAMBDA output :
        Bind(PyIn("message", output), LAMBDA hasMessage :
          IF ~hasMessage THEN Ok(PyStr("No response generated"))
          ELSE
            Bind(PyGetKey(output, "message"), LAMBDA message :
              Bind(PyGetKey(message, "content"), LAMBDA content :
                Bind(PyGetFirst(content), LAMBDA first :
                  PyGetKey(first, "text")))))))

\* every provider error reported by its code alone
MapClientErrorCodeOnly(error_code, error_message, model) ==
  Raise("Exception", "Bedrock error: " \o error_code)

\* except ClientError: the exception raised for the provider's error
MapClientError(error_code, error_message, model) ==
  CASE error_code = "AccessDeniedException" ->
         Raise("Exception",
               "Access denied to Bedrock. Please ensure: "
               \o "1) Model access is enabled in AWS Console, "
               \o "2) Lambda role has bedrock:InvokeModel permission")
    [] error_code = "ResourceNotFoundException" ->
         Raise("Exception",
               "Model not found: " \o model \o ". Please check the model ID.")
    [] OTHER -> Raise("Exception", "Bedrock error: " \o error_message)

\* what invoke_bedrock returns or raises once the call on bedrock_runtime
\* has had outcome o
invoke_bedrock_result(o, model) ==
  CASE o.kind = "client_error" -> MapClientError(o.code, o.message, model)
    [] o.kind = "error" -> Raise(o.type, o.msg)
    [] o.kind = "response" ->
         IF IsAnthropic(model) THEN ExtractAnthropic(o.response)
         ELSE ExtractConverse(o.response)

(* ----------------------- handler.py: lambda_handler -------------------- *)

Headers400 ==
  ("Content-Type" :> "application/json")
  @@ ("Access-Control-Allow-Origin" :> "*")
  @@ ("Access-Control-Allow-Headers" :> "Content-Type")
  @@ ("Access-Control-Allow-Methods" :> "POST, OPTIONS")

Headers200 ==
  ("Content-Type" :> "application/json")
  @@ ("Access-Control-Allow-Origin" :> "*")
  @@ ("Access-Control-Allow-Headers" :> "Content-Type")
  @@ ("Access-Control-Allow-Methods" :> "POST, OPTIONS")

\* the error path without the CORS headers
Headers500ContentTypeOnly == ("Content-Type" :> "application/json")

Headers500 ==
  ("Content-Type" :> "application/json")
  @@ ("Access-Control-Allow-Origin" :> "*")
  @@ ("Access-Control-Allow-Headers" :> "Content-Type")
  @@ ("Access-Control-Allow-Methods" :> "POST, OPTIONS")

\* the envelope of the `if not query` branch
BadRequest ==
  [statusCode |-> 400, headers |-> Headers400,
   body |-> json_dumps(PyDict(<< <<"error", PyStr("Query is required")>> >>))]

\* the success return with query and response taken for one another
SuccessSwapped(q, text, model) ==
  [statusCode |-> 200, headers |-> Headers200,
   body |-> json_dumps(PyDict(<< <<"query", text>>,
                                 <<"response", q>>,
                                 <<"model", PyStr(model)>> >>))]

\* the envelope of the success return
Success(q, text, model) ==
  [statusCode |-> 200, headers |-> Headers200,
   body |-> json_dumps(PyDict(<< <<"query", q>>,
                                 <<"response", text>>,
                                 <<"model", PyStr(model)>> >>))]

\* the envelope of the `except Exception as e` branch
InternalError(e) ==
  [statusCode |-> 500, headers |-> Headers500,
   body |-> json_dumps(PyDict(<< <<"error",
              PyStr("Internal server error: " \o e.msg)>> >>))]

\* json.loads(event['body']) if isinstance(event['body'], str) else
\* event['body']
BodyValue(b) == IF b.t = "str" THEN json_loads(b.s) ELSE Ok(b)

\* the parse of the incoming request: the value bound to body
ParseBody(ev) ==
  Bind(PyIn("body", ev), LAMBDA has :
    IF has THEN BodyValue(Lookup(ev.d, "body")) ELSE Ok(ev))

\* a statement of the try block: Then(v) runs on the value of r, and an
\* exception of r is caught by `except Exception as e`
Try(r, Then(_)) ==
  IF r.ok THEN Then(r.val)
  ELSE [done |-> TRUE, result |-> Ok(InternalError(r.exc))]

\* a statement outside the try block: its exception leaves the handler
NoTry(r, Then(_)) == IF r.ok THEN Then(r.val) ELSE [done |-> TRUE, result |-> r]

\* the handler with the parse of the request placed before the try
HandlerBeginParseOutsideTry(ev) ==
  NoTry(ParseBody(ev), LAMBDA body :
    Try(PyGet(body, "query", PyStr("")), LAMBDA q :
      IF ~Truthy(q) THEN [done |-> TRUE, result |-> Ok(BadRequest)]
      ELSE [done |-> FALSE, query |-> q]))

\* lambda_handler up to the call of invoke_bedrock: either it has returned
\* (done, with what it returned) or it goes on to call with query
HandlerBegin(ev) ==
  Try(ParseBody(ev), LAMBDA body :
    Try(PyGet(body, "query", PyStr("")), LAMBDA q :
      IF ~Truthy(q) THEN [done |-> TRUE, result |-> Ok(BadRequest)]
      ELSE [done |-> FALSE, query |-> q]))

\* lambda_handler from the return of invoke_bedrock, r being what it
\* returned or raised
HandlerEnd(q, r, model) ==
  IF r.ok THEN Ok(Success(q, r.val, model)) ELSE Ok(InternalError(r.exc))

(* ------------------------------ inputs --------------------------------- *)

\* values of BEDROCK_MODEL_ID the process may start with; the first is the
\* default
ModelIds ==
  {"anthropic.claude-3-haiku-20240307-v1:0",
   "us.Anthropic.Claude-3-Haiku",
   "ANTHROPIC.CLAUDE-V2",
   "amazon.nova-micro-v1:0",
   "anthropi.c-test"}

\* values a client sends under the key query
QueryValues ==
  {PyStr(""), PyStr("hi"), PyStr("say \"hi\""),
   PyInt(5), PyInt(0), PyList(<<PyStr("a")>>), PyDict(<<>>), None}

\* bodies that are a str and not the dump of an object
RawBodies == {"", "not json", "{\"query\": ", "null", "[1, 2]"}

\* bodies that are neither a str nor an object
OtherBodies == {None, PyList(<<PyStr("query")>>), PyInt(5)}

\* an inbound envelope, described: form says how it is wrapped, has_query
\* whether the key query is there and q its value; text and body are the
\* body of the forms that carry no object
Inputs ==
  [form : {"direct", "gateway_str", "gateway_obj"},
   has_query : {TRUE}, q : QueryValues]
  \cup [form : {"direct", "gateway_str", "gateway_obj"},
        has_query : {FALSE}, q : {None}]
  \cup [form : {"gateway_raw"}, text : RawBodies]
  \cup [form : {"gateway_other"}, body : OtherBodies]

Payload(inp) ==
  IF inp.has_query THEN PyDict(<< <<"query", inp.q>> >>)
  ELSE PyDict(<< <<"source", PyStr("web")>> >>)

Gateway(body) ==
  PyDict(<< <<"httpMethod", PyStr("POST")>>, <<"body", body>> >>)

\* the event lambda_handler receives for inp
MakeEvent(inp) ==
  CASE inp.form = "direct" -> Payload(inp)
    [] inp.form = "gateway_str" -> Gateway(PyStr(json_dumps(Payload(inp))))
    [] inp.form = "gateway_obj" -> Gateway(Payload(inp))
    [] inp.form = "gateway_raw" -> Gateway(PyStr(inp.text))
    [] inp.form = "gateway_other" -> Gateway(inp.body)

\* the text of the k-th content block of a provider response
BlockText(k) == IF k = 1 THEN "hello" ELSE "block " \o ToString(k)

ContentList(n) ==
  PyList([k \in 1..n |->
            PyDict(<< <<"type", PyStr("text")>>,
                      <<"text", PyStr(BlockText(k))>> >>)])

ClientErrors ==
  {[kind |-> "client_error", code |-> "AccessDeniedException",
    message |-> "You don't have access to the model with the specified model ID."],
   [kind |-> "client_error", code |-> "ResourceNotFoundException",
    message |-> "Could not resolve the foundation model from the provided model identifier."],
   [kind |-> "client_error", code |-> "ThrottlingException",
    message |-> "Too many requests, please wait before trying again."],
   [kind |-> "client_error", code |-> "ValidationException",
    message |-> "Malformed input request: expected type \"string\""]}

OtherErrors ==
  {[kind |-> "error", type |-> "ReadTimeoutError",
    msg |-> "Read timeout on endpoint URL"]}

\* response bodies invoke_model may give
AnthropicBodies ==
  {PyDict(<< <<"id", PyStr("msg_1")>> >>),
   PyDict(<< <<"content", None>> >>),
   PyDict(<< <<"content", PyList(<<PyDict(<< <<"type", PyStr("tool_use")>> >>)>>)>> >>)}
  \cup {PyDict(<< <<"id", PyStr("msg_1")>>, <<"content", ContentList(n)>> >>) :
          n \in 0..MaxContentLen}

\* responses converse may give
ConverseResponses ==
  {PyDict(<< <<"stopReason", PyStr("end_turn")>> >>),
   PyDict(<< <<"output", PyDict(<<>>)>> >>),
   PyDict(<< <<"output",
     PyDict(<< <<"message", PyDict(<< <<"role", PyStr("assistant")>> >>)>> >>)>> >>)}
  \cup {PyDict(<< <<"output",
          PyDict(<< <<"message",
            PyDict(<< <<"role", PyStr("assistant")>>,
                      <<"content", ContentList(n)>> >>)>> >>)>> >>) :
          n \in 0..MaxContentLen}

\* the outcomes the provider may give to invoke_model
InvokeModelOutcomes ==
  ClientErrors \cup OtherErrors
  \cup {[kind |-> "response",
          response |-> PyDict(<< <<"body", PyStr(json_dumps(b))>> >>)] :
          b \in AnthropicBodies}

\* the outcomes the provider may give to converse
ConverseOutcomes ==
  ClientErrors \cup OtherErrors
  \cup {[kind |-> "response", response |-> r] : r \in ConverseResponses}

\* the outcomes of a call of operation op
Outcomes(op) ==
  IF op = "invoke_model" THEN InvokeModelOutcomes ELSE ConverseOutcomes

AllOutcomes == InvokeModelOutcomes \cup ConverseOutcomes

(* The handler over the inputs above. TLC evaluates a constant once, so    *)
(* the actions below read the handler's values from these tables.          *)

\* f with every value computed
Table(f) == f @@ <<>>

EventOf == Table([inp \in Inputs |-> MakeEvent(inp)])

BeginOf == Table([inp \in Inputs |-> HandlerBegin(EventOf[inp])])

\* the queries that reach invoke_bedrock
CalledQueries == {BeginOf[inp].query : inp \in {x \in Inputs : ~BeginOf[x].done}}

CallsOf ==
  Table([m \in ModelIds |->
    Table([q \in CalledQueries |-> invoke_bedrock_calls(q, m)])])

ResultOf ==
  Table([m \in ModelIds |->
    Table([o \in AllOutcomes |-> invoke_bedrock_result(o, m)])])

EndOf ==
  Table([m \in ModelIds |->
    Table([q \in CalledQueries |->
      Table([o \in AllOutcomes |-> HandlerEnd(q, ResultOf[m][o], m)])])])

(* --------------------------- state machine ----------------------------- *)

\* the invocations the Lambda host may have running over one module state
Invocations == {1, 2}

VARIABLES
  MODEL_ID,   \* the module global MODEL_ID
  pc,         \* pc[i]: "idle", "calling" (inside bedrock_runtime), "done"
  input,      \* input[i]: the description of the envelope of invocation i
  event,      \* event[i]: the argument event
  query,      \* query[i]: the local query
  calls,      \* calls[i]: the calls invocation i made on bedrock_runtime
  outcome,    \* outcome[i]: what the provider answered
  response,   \* response[i]: what invoke_bedrock returned or raised
  result      \* result[i]: what lambda_handler returned or raised

vars == <<MODEL_ID, pc, input, event, query, calls, outcome, response, result>>

Unset == [t |-> "unset"]

Init ==
  /\ MODEL_ID \in ModelIds
  /\ pc = [i \in Invocations |-> "idle"]
  /\ input = [i \in Invocations |-> Unset]
  /\ event = [i \in Invocations |-> Unset]
  /\ query = [i \in Invocations |-> Unset]
  /\ calls = [i \in Invocations |-> <<>>]
  /\ outcome = [i \in Invocations |-> Unset]
  /\ response = [i \in Invocations |-> Unset]
  /\ result = [i \in Invocations |-> Unset]

\* the host calls lambda_handler(event, context): the handler runs up to
\* its return, or up to the call it makes on bedrock_runtime
Invoke(i, inp) ==
  /\ pc[i] = "idle"
  /\ LET ev == EventOf[inp]
         h == BeginOf[inp]
     IN /\ input' = [input EXCEPT ![i] = inp]
        /\ event' = [event EXCEPT ![i] = ev]
        /\ IF h.done
           THEN /\ pc' = [pc EXCEPT ![i] = "done"]
                /\ result' = [result EXCEPT ![i] = h.result]
                /\ UNCHANGED <<query, calls>>
           ELSE /\ pc' = [pc EXCEPT ![i] = "calling"]
                /\ query' = [query EXCEPT ![i] = h.query]
                /\ calls' = [calls EXCEPT
                              ![i] = CallsOf[MODEL_ID][h.query]]
                /\ UNCHANGED result
  /\ UNCHANGED <<MODEL_ID, outcome, response>>

\* query kept in a module global that the latest invocation overwrites
SharedQuery(i) ==
  IF \E j \in Invocations : j > i /\ pc[j] = "calling"
  THEN query[CHOOSE j \in Invocations : j > i /\ pc[j] = "calling"]
  ELSE query[i]

\* the local query of invocation i, read after invoke_bedrock returns
LocalQuery(i) == query[i]

\* the call invocation i is waiting in ends with some outcome o:
\* invoke_bedrock and then lambda_handler run to their return
Respond(i) ==
  /\ pc[i] = "calling"
  /\ \E o \in Outcomes(calls[i][Len(calls[i])].op) :
       /\ outcome' = [outcome EXCEPT ![i] = o]
       /\ response' = [response EXCEPT ![i] = ResultOf[MODEL_ID][o]]
       /\ result' = [result EXCEPT ![i] = EndOf[MODEL_ID][LocalQuery(i)][o]]
  /\ pc' = [pc EXCEPT ![i] = "done"]
  /\ UNCHANGED <<MODEL_ID, input, event, query, calls>>

\* the host has taken the result; the slot serves the next invocation
Finish(i) ==
  /\ pc[i] = "done"
  /\ pc' = [pc EXCEPT ![i] = "idle"]
  /\ input' = [input EXCEPT ![i] = Unset]
  /\ event' = [event EXCEPT ![i] = Unset]
  /\ query' = [query EXCEPT ![i] = Unset]
  /\ calls' = [calls EXCEPT ![i] = <<>>]
  /\ outcome' = [outcome EXCEPT ![i] = Unset]
  /\ response' = [response EXCEPT ![i] = Unset]
  /\ result' = [result EXCEPT ![i] = Unset]
  /\ UNCHANGED MODEL_ID

\* one execution environment: it serves one invocation at a time
Next ==
  \/ \E inp \in Inputs : Invoke(1, inp)
  \/ Respond(1)
  \/ Finish(1)

Spec == Init /\ [][Next]_vars

\* invocations running side by side over the same module globals
NextConcurrent ==
  \/ \E i \in Invocations, inp \in Inputs : Invoke(i, inp)
  \/ \E i \in Invocations : Respond(i)
  \/ \E i \in Invocations : Finish(i)

SpecConcurrent == Init /\ [][NextConcurrent]_vars

(* ------------------------------ claims --------------------------------- *)

Done(i) == pc[i] = "done"

\* the three forms that carry an object with or without the key query
ObjectForms == {"direct", "gateway_str", "gateway_obj"}

CarriesQuery(inp) == inp.form \in ObjectForms /\ inp.has_query

\* the envelope carries a query that is a non-empty str
ValidQuery(inp) == CarriesQuery(inp) /\ inp.q.t = "str" /\ inp.q.s # ""

\* the envelope yields no query, or the empty str: the key is missing, its
\* value is "", or the gateway body is null
NoQuery(inp) ==
  \/ inp.form \in ObjectForms /\ (~inp.has_query \/ inp.q = PyStr(""))
  \/ inp.form = "gateway_other" /\ inp.body = None

\* the body {"error": msg}, parsed
ErrorBody(msg) == Ok(PyDict(<< <<"error", PyStr(msg)>> >>))

\* the error string of the envelope invocation i returned
ErrorText(i) == Lookup(json_loads(result[i].val.body).val.d, "error").s

StandardHeaders ==
  ("Content-Type" :> "application/json")
  @@ ("Access-Control-Allow-Origin" :> "*")
  @@ ("Access-Control-Allow-Headers" :> "Content-Type")
  @@ ("Access-Control-Allow-Methods" :> "POST, OPTIONS")

\* s holds the word anthropic, each letter in either case
HoldsAnthropic(s) ==
  LET lo == "anthropic"
      up == "ANTHROPIC"
  IN \E p \in 1..(Len(s) - 8) :
       \A k \in 1..9 : Ch(s, p + k - 1) \in {Ch(lo, k), Ch(up, k)}

\* the content list of the response the provider gave invocation i, as a
\* result: Raise when the response has no such list
AnsweredContent(i) ==
  LET r == outcome[i].response
  IN IF calls[i][1].op = "invoke_model"
     THEN LET rb == json_loads(Lookup(r.d, "body").s).val
          IN IF HasKey(rb.d, "content") THEN Ok(Lookup(rb.d, "content"))
             ELSE Raise("absent", "content")
     ELSE IF ~HasKey(r.d, "output") THEN Raise("absent", "output")
     ELSE IF ~HasKey(Lookup(r.d, "output").d, "message")
          THEN Raise("absent", "message")
     ELSE LET msg == Lookup(Lookup(r.d, "output").d, "message")
          IN IF HasKey(msg.d, "content") THEN Ok(Lookup(msg.d, "content"))
             ELSE Raise("absent", "content")

Answered(i) == Done(i) /\ outcome[i] # Unset /\ outcome[i].kind = "response"

\* the provider answered invocation i with a text: a content list whose
\* first block has one
AnsweredText(i) ==
  /\ Answered(i)
  /\ AnsweredContent(i).ok
  /\ AnsweredContent(i).val.t = "list"
  /\ Len(AnsweredContent(i).val.l) > 0
  /\ HasKey(AnsweredContent(i).val.l[1].d, "text")

FirstText(i) == Lookup(AnsweredContent(i).val.l[1].d, "text")

\* the provider answered invocation i without the nested field, or with an
\* empty content list
AnsweredEmpty(i) ==
  /\ Answered(i)
  /\ \/ ~AnsweredContent(i).ok /\ AnsweredContent(i).exc.msg # "content"
     \/ ~AnsweredContent(i).ok /\ calls[i][1].op = "invoke_model"
     \/ AnsweredContent(i).ok /\ AnsweredContent(i).val = PyList(<<>>)

\* C1: an envelope with no query, with the empty query or with a null
\* gateway body is answered 400 {"error": "Query is required"} and makes no
\* call on the remote API.
C1_NoQueryIs400 ==
  \A i \in Invocations :
    Done(i) /\ NoQuery(input[i]) =>
      /\ result[i].ok
      /\ result[i].val.statusCode = 400
      /\ result[i].val.body = "{\"error\": \"Query is required\"}"
      /\ calls[i] = <<>>

\* C2: lambda_handler always returns an envelope of statusCode, headers and
\* body and lets no exception escape; an exception raised by invoke_bedrock
\* and a failed parse of a str body both give 500 with the body
\* {"error": "Internal server error: <text of the exception>"}.
C2_ExceptionsBecome500 ==
  \A i \in Invocations :
    Done(i) =>
      /\ result[i].ok
      /\ DOMAIN result[i].val = {"statusCode", "headers", "body"}
      /\ (response[i] # Unset /\ ~response[i].ok =>
            /\ result[i].val.statusCode = 500
            /\ json_loads(result[i].val.body)
                 = ErrorBody("Internal server error: " \o response[i].exc.msg))
      /\ (input[i].form \in {"gateway_str", "gateway_raw"}
          /\ ~json_loads(Lookup(event[i].d, "body").s).ok =>
            /\ result[i].val.statusCode = 500
            /\ json_loads(result[i].val.body)
                 = ErrorBody("Internal server error: "
                      \o json_loads(Lookup(event[i].d, "body").s).exc.msg))

C2_Witness ==
  \E i \in Invocations :
    /\ Done(i) /\ input[i].form = "gateway_raw"
    /\ ~json_loads(Lookup(event[i].d, "body").s).ok
    /\ result[i].ok /\ result[i].val.statusCode = 500

\* C3: the remote operation depends only on whether the model identifier
\* holds "anthropic" in any letter case: if so the one call is invoke_model
\* with max_tokens 1000 and messages [{role: user, content: query}], and
\* otherwise the one call is converse with messages
\* [{role: user, content: [{text: query}]}], maxTokens 1000, temperature 0.7.
C3_FamilyBySubstring ==
  \A i \in Invocations :
    calls[i] # <<>> =>
      IF HoldsAnthropic(MODEL_ID)
      THEN \A k \in 1..Len(calls[i]) :
             /\ calls[i][k].op = "invoke_model"
             /\ LET sent == json_loads(calls[i][k].body).val.d
                IN /\ Lookup(sent, "max_tokens") = PyInt(1000)
                   /\ Lookup(sent, "messages")
                        = PyList(<<PyDict(<< <<"role", PyStr("user")>>,
                                             <<"content", query[i]>> >>)>>)
      ELSE \A k \in 1..Len(calls[i]) :
             /\ calls[i][k].op = "converse"
             /\ calls[i][k].messages
                  = PyList(<<PyDict(<< <<"role", PyStr("user")>>,
                       <<"content",
                         PyList(<<PyDict(<< <<"text", query[i]>> >>)>>)>> >>)>>)
             /\ Lookup(calls[i][k].inferenceConfig.d, "maxTokens") = PyInt(1000)
             /\ Lookup(calls[i][k].inferenceConfig.d, "temperature")
                  = PyFloat("0.7")

C3_Witness ==
  \E i \in Invocations :
    /\ pc[i] = "calling"
    /\ MODEL_ID = "us.Anthropic.Claude-3-Haiku"
    /\ calls[i][1].op = "invoke_model"

\* C4: in both families a successful call whose response lacks the nested
\* field or has an empty content list makes invoke_bedrock return
\* "No response generated", and the handler answers 200.
C4_EmptyAnswerFallsBack ==
  \A i \in Invocations :
    AnsweredEmpty(i) =>
      /\ response[i] = Ok(PyStr("No response generated"))
      /\ result[i].val.statusCode = 200

\* C5: a provider client error gives 500, and the error string follows the
\* code: AccessDeniedException names model access and the
\* bedrock:InvokeModel permission, ResourceNotFoundException holds the model
\* identifier, any other code holds the provider's message unchanged.
C5_ClientErrorMapping ==
  \A i \in Invocations :
    Done(i) /\ outcome[i] # Unset /\ outcome[i].kind = "client_error" =>
      /\ result[i].ok
      /\ result[i].val.statusCode = 500
      /\ CASE outcome[i].code = "AccessDeniedException" ->
                /\ StrContains(ErrorText(i), "Model access is enabled")
                /\ StrContains(ErrorText(i), "bedrock:InvokeModel permission")
           [] outcome[i].code = "ResourceNotFoundException" ->
                StrContains(ErrorText(i), MODEL_ID)
           [] OTHER -> StrContains(ErrorText(i), outcome[i].message)

C5_Witness ==
  \E i \in Invocations :
    /\ Done(i) /\ outcome[i] # Unset /\ outcome[i].kind = "client_error"
    /\ outcome[i].code = "ValidationException"
    /\ result[i].ok /\ result[i].val.statusCode = 500

\* C6: a valid query, in the direct form or in the gateway form with a str
\* or an object body, whose remote call returns the text t is answered 200
\* with the body json.dumps({query: the input query, response: t, model: the
\* model identifier}), the identifier the remote call was given.
C6_SuccessBody ==
  \A i \in Invocations :
    AnsweredText(i) /\ ValidQuery(input[i]) =>
      /\ result[i].ok
      /\ result[i].val.statusCode = 200
      /\ result[i].val.body
           = json_dumps(PyDict(<< <<"query", input[i].q>>,
                                  <<"response", FirstText(i)>>,
                                  <<"model", PyStr(MODEL_ID)>> >>))
      /\ Lookup(json_loads(result[i].val.body).val.d, "model")
           = PyStr(calls[i][1].modelId)

C6_Witness ==
  \E i \in Invocations :
    /\ AnsweredText(i)
    /\ input[i].form = "gateway_str" /\ ValidQuery(input[i])
    /\ input[i].q = PyStr("say \"hi\"")
    /\ result[i].ok /\ result[i].val.statusCode = 200

\* C7: every envelope lambda_handler returns has the same four headers, and
\* its statusCode is 200, 400 or 500.
C7_FixedHeaders ==
  \A i \in Invocations :
    Done(i) =>
      /\ result[i].ok
      /\ result[i].val.headers = StandardHeaders
      /\ result[i].val.statusCode \in {200, 400, 500}

C7_Witness ==
  \E i \in Invocations :
    Done(i) /\ result[i].ok /\ result[i].val.statusCode = 500

\* C8: one invocation calls the remote API at most once, invoke_model and
\* converse together: once when the query passes validation, and not again
\* after a provider error or a failed extraction.
C8_AtMostOneCall ==
  \A i \in Invocations :
    /\ Len(calls[i]) <= 1
    /\ (pc[i] \in {"calling", "done"}
        /\ CarriesQuery(input[i]) /\ Truthy(input[i].q) => Len(calls[i]) = 1)
    /\ (Done(i) /\ response[i] # Unset /\ ~response[i].ok => Len(calls[i]) = 1)

C8_Witness ==
  \E i \in Invocations :
    /\ Done(i) /\ outcome[i] # Unset /\ outcome[i].kind = "client_error"
    /\ Len(calls[i]) = 1

\* two finished invocations with the same envelope and the same provider
\* outcome returned the same envelope
SameInSameOut ==
  \A i, j \in Invocations :
    Done(i) /\ Done(j) /\ event[i] = event[j] /\ outcome[i] = outcome[j] =>
      result[i] = result[j]

\* C9: the returned envelope is a function of the inbound envelope, the
\* model identifier and the outcome of the remote call: two invocations,
\* one after the other or interleaved, with the same envelope and the same
\* outcome return the same envelope; and no step changes MODEL_ID.
C9_Deterministic == []SameInSameOut /\ [][MODEL_ID' = MODEL_ID]_vars

C9_Witness ==
  /\ Done(1) /\ Done(2)
  /\ event[1] = event[2] /\ outcome[1] = outcome[2]
  /\ outcome[1] # Unset /\ outcome[1].kind = "response"
  /\ result[1].val.statusCode = 200

\* C10: invoke_bedrock is only called with a non-empty str: an envelope
\* whose query is anything else, a truthy number, list or object included,
\* is rejected and makes no call on the remote API.
C10_OnlyStrQueriesCalled ==
  \A i \in Invocations :
    /\ (calls[i] # <<>> => query[i].t = "str" /\ query[i].s # "")
    /\ (Done(i) /\ CarriesQuery(input[i]) /\ ~ValidQuery(input[i]) =>
          result[i].val.statusCode # 200 /\ calls[i] = <<>>)

====
